---- MODULE Spec2Model ----
(***************************************************************************)
(* Receiver side of the chunked blob transfer of blob-stream-rs:           *)
(*   BlobStreamIn   (src/src/lib.rs)            the chunk buffer           *)
(*   InLogic        (in_logic.rs)               one transfer's session     *)
(*   InLogicFront   (src/src/in_logic_front.rs) the multi-transfer front   *)
(***************************************************************************)
EXTENDS Integers, Sequences, FiniteSets, TLC

\* ------------------------------------------------------------------ bounds
MaxTotal == 3         \* octet_count of InLogic::new
MaxChunkSize == 2     \* chunk sizes
FrontMaxTotal == 1    \* total_octet_size of a StartTransfer

\* width of the receive mask (u64)
MaskBits == 64

TransferIds == {1, 2}
\* octet values: 0 is what a new buffer holds, 1 differs from it; the code
\* only copies and compares octets
Bytes == {0, 1}
OctetCounts == 0..MaxTotal
ChunkSizes == 0..MaxChunkSize
ChunkIndexes == 0..MaxTotal
FrontOctetCounts == 0..FrontMaxTotal
FrontChunkIndexes == 0..FrontMaxTotal
SeqsUpTo(S, n) == UNION {[1..k -> S] : k \in 0..n}
Payloads == SeqsUpTo(Bytes, MaxChunkSize + 1)

VARIABLES
    \* one InLogic, driven as tests/in_logic.rs drives it
    logic,       \* the InLogic (its BlobStreamIn)
    written,     \* history: chunk index -> payload of the set_chunk that returned Ok
    call,        \* the call that ran last, with its arguments and what it returned
    answer,      \* the AckChunk the last InLogic::send returned
    \* one InLogicFront
    transfers,   \* InLogicFront.transfers : transfer id -> InLogic
    accepted,    \* history: transfer id -> (chunk index -> payload of the set_chunk that returned Ok)
    lastOp,      \* the operation that ran last, with what it returned
    out,         \* the commands the last InLogicFront::send returned
    \* the wire
    codec        \* the last to_stream / from_stream: the command, the octets, what was read

logicVars == <<logic, written, call, answer>>
frontVars == <<transfers, accepted, lastOp, out>>
codecVars == <<codec>>
vars == <<logic, written, call, answer, transfers, accepted, lastOp, out, codec>>

\* ------------------------------------------------------------ BlobError
Ok == [kind |-> "Ok", a |-> 0, b |-> 0, c |-> 0]
NotCalled == [kind |-> "NotCalled", a |-> 0, b |-> 0, c |-> 0]
InvalidChunkIndex(i, n) == [kind |-> "InvalidChunkIndex", a |-> i, b |-> n, c |-> 0]
UnexpectedChunkSize(e, f, i) == [kind |-> "UnexpectedChunkSize", a |-> e, b |-> f, c |-> i]
OutOfBounds == [kind |-> "OutOfBounds", a |-> 0, b |-> 0, c |-> 0]
RedundantSameContents(i) == [kind |-> "RedundantSameContents", a |-> i, b |-> 0, c |-> 0]
RedundantContentDiffers(i) == [kind |-> "RedundantContentDiffers", a |-> i, b |-> 0, c |-> 0]

\* ------------------------------------------------------------ BitArray
\* bits are kept as a sequence of BOOLEAN; chunk index i is position i + 1
BitArrayNew(n) == [i \in 1..n |-> FALSE]
bit_count(bits) == Len(bits)
\* mutant: every bit reads as unset
BitGet_Unset(bits, i) == FALSE
BitGet(bits, i) == bits[i + 1]
\* mutants: the bit is not set / the first bit is set instead
BitSet_Forgotten(bits, i) == bits
BitSet_First(bits, i) == [bits EXCEPT ![1] = TRUE]
\* mutant: setting a bit clears the others
BitSet_Only(bits, i) == [j \in 1..Len(bits) |-> j = i + 1]
BitSet(bits, i) == [bits EXCEPT ![i + 1] = TRUE]
all_set(bits) == \A i \in 1..Len(bits) : bits[i]

\* ---------------------------------------------------------- BlobStreamIn
div_ceil(a, b) == (a + b - 1) \div b

BlobStreamInNew(octet_count, fixed_chunk_size) ==
    [bit_array |-> BitArrayNew(div_ceil(octet_count, fixed_chunk_size)),
     fixed_chunk_size |-> fixed_chunk_size,
     octet_count |-> octet_count,
     blob |-> [i \in 1..octet_count |-> 0]]

chunk_count(self) == bit_count(self.bit_array)
\* mutant: complete as soon as one chunk is there
is_complete_any(self) == \E i \in 1..Len(self.bit_array) : self.bit_array[i]
is_complete(self) == all_set(self.bit_array)

None == [some |-> FALSE, value |-> <<>>]
Some(v) == [some |-> TRUE, value |-> v]
blob(self) == IF is_complete(self) THEN Some(self.blob) ELSE None

\* mutant: the last chunk is expected to be a full chunk whatever is left
expected_size_full(self, chunk_index) == self.fixed_chunk_size
expected_size(self, chunk_index) ==
    IF chunk_index = chunk_count(self) - 1
    THEN self.octet_count % self.fixed_chunk_size
    ELSE self.fixed_chunk_size

\* mutant: the stored bytes are read from the start of the buffer
Slice_from_start(s, from, to) == [i \in 1..(to - from) |-> s[i]]
Slice(s, from, to) == [i \in 1..(to - from) |-> s[from + i]]

\* mutant: the payload is copied to the start of the buffer
copy_from_slice_start(b, octet_offset, payload) ==
    [i \in 1..Len(b) |-> IF i <= Len(payload) THEN payload[i] ELSE b[i]]
copy_from_slice(b, octet_offset, payload) ==
    [i \in 1..Len(b) |->
        IF i > octet_offset /\ i <= octet_offset + Len(payload)
        THEN payload[i - octet_offset]
        ELSE b[i]]

\* set_chunk returns the Result and the stream as the call leaves it
set_chunk(self, chunk_index, payload) ==
    LET n == chunk_count(self)
        expected == expected_size(self, chunk_index)
        octet_offset == chunk_index * self.fixed_chunk_size
    IN  IF chunk_index >= n
        THEN [res |-> InvalidChunkIndex(chunk_index, n), self |-> self]
        ELSE IF Len(payload) # expected
        THEN [res |-> UnexpectedChunkSize(expected, Len(payload), chunk_index), self |-> self]
        ELSE IF octet_offset + expected > Len(self.blob)
        THEN [res |-> OutOfBounds, self |-> self]
        ELSE IF BitGet(self.bit_array, chunk_index)
        THEN [res |-> IF Slice(self.blob, octet_offset, octet_offset + expected) = payload
                      THEN RedundantSameContents(chunk_index)
                      ELSE RedundantContentDiffers(chunk_index),
              self |-> self]
        ELSE [res |-> Ok,
              self |-> [self EXCEPT
                          !.blob = copy_from_slice(self.blob, octet_offset, payload),
                          !.bit_array = BitSet(self.bit_array, chunk_index)]]

\* --------------------------------------------------------------- InLogic
\* the session of one transfer: it owns one BlobStreamIn
InLogicNew(octet_count, chunk_size) == BlobStreamInNew(octet_count, chunk_size)

\* smallest index whose bit is unset, or bit_count when there is none
first_unset_bit(bits) ==
    IF \E i \in 1..Len(bits) : ~bits[i]
    THEN (CHOOSE i \in 1..Len(bits) : ~bits[i] /\ \A j \in 1..(i - 1) : bits[j]) - 1
    ELSE bit_count(bits)

\* the bits from from_index on, as the set of set bit positions of a u64;
\* positions past the end of the array read as unset
atom_from_index(bits, from_index) ==
    {i \in 0..(MaskBits - 1) \cap 0..(bit_count(bits) - from_index - 1) : BitGet(bits, from_index + i)}

AckChunkData(w, m) == [waiting_for_chunk_index |-> w, receive_mask_after_last |-> m]

InLogicSend(self) ==
    LET w == first_unset_bit(self.bit_array)
    IN  AckChunkData(w, atom_from_index(self.bit_array, w + 1))

\* io::Result of InLogic::receive for a set_chunk result
InLogicResult(res) ==
    IF res.kind \in {"Ok", "RedundantSameContents"} THEN "Ok" ELSE "Err"

InLogicReceive(self, chunk_index, payload) ==
    LET r == set_chunk(self, chunk_index, payload)
    IN  [result |-> InLogicResult(r.res), res |-> r.res, self |-> r.self]

\* the numeric value of a mask whose bits are all below 31
RECURSIVE MaskValue(_)
MaskValue(m) ==
    IF m = {} THEN 0
    ELSE LET i == CHOOSE x \in m : TRUE IN 2^i + MaskValue(m \ {i})

\* mutant: the new entry takes the place of the map's entries
Insert_Single(map, k, v) == [x \in {k} |-> v]
Insert(map, k, v) == [x \in DOMAIN map \cup {k} |-> IF x = k THEN v ELSE map[x]]
\* the history maps
Record(map, k, v) == [x \in DOMAIN map \cup {k} |-> IF x = k THEN v ELSE map[x]]
Empty == [x \in {} |-> 0]
NoAck == AckChunkData(0, {})

\* what handling a command answers: nothing, AckStart(transfer_id) or
\* AckChunk(transfer_id, summary)
NoResponse == [kind |-> "None", transfer_id |-> 0, data |-> NoAck]
AckStart(transfer_id) == [kind |-> "AckStart", transfer_id |-> transfer_id, data |-> NoAck]
AckChunk(transfer_id, data) == [kind |-> "AckChunk", transfer_id |-> transfer_id, data |-> data]

\* the answer to a SetChunk that the session of transfer_id, now self, took with result
ChunkResponse(transfer_id, self, result) ==
    IF result = "Ok" THEN AckChunk(transfer_id, InLogicSend(self)) ELSE NoResponse

\* ------------------------------------------------- one InLogic on its own
Call(op, idx, payload, res, result) ==
    [op |-> op, chunk_index |-> idx, payload |-> payload, set_chunk |-> res, result |-> result]

Idle ==
    /\ logic = InLogicNew(0, 1)
    /\ written = Empty
    /\ call = Call("idle", 0, <<>>, NotCalled, "Ok")
    /\ answer = NoAck

CodecIdle ==
    codec = [op |-> "idle", writer |-> "none", reader |-> "none", command |-> [kind |-> "None"],
             octets |-> <<>>,
             read |-> [ok |-> FALSE, value |-> 0, rest |-> <<>>,
                       err |-> [kind |-> "None", value |-> 0]]]

FrontIdle ==
    /\ transfers = Empty
    /\ accepted = Empty
    /\ lastOp = [op |-> "idle", transfer_id |-> 0, chunk_index |-> 0, total_octet_size |-> 0,
                 chunk_size |-> 0, set_chunk |-> NotCalled, result |-> "Ok",
                 response |-> NoResponse]
    /\ out = <<>>

\* InLogic::new(octet_count, chunk_size)
InitInLogic ==
    /\ \E octet_count \in OctetCounts, chunk_size \in ChunkSizes \ {0} :
          logic = InLogicNew(octet_count, chunk_size)
    /\ written = Empty
    /\ call = Call("new", 0, <<>>, NotCalled, "Ok")
    /\ answer = NoAck
    /\ FrontIdle
    /\ CodecIdle

\* InLogic::receive(SetChunk(chunk_index, payload))
Receive(chunk_index, payload) ==
    LET r == InLogicReceive(logic, chunk_index, payload)
    IN  /\ logic' = r.self
        /\ written' = IF r.res = Ok THEN Record(written, chunk_index, payload) ELSE written
        /\ call' = Call("receive", chunk_index, payload, r.res, r.result)
        /\ answer' = NoAck
        /\ UNCHANGED <<frontVars, codecVars>>

\* InLogic::send()
SendAck ==
    /\ answer' = InLogicSend(logic)
    /\ call' = Call("send", 0, <<>>, NotCalled, "Ok")
    /\ UNCHANGED <<logic, written>>
    /\ UNCHANGED <<frontVars, codecVars>>

NextInLogic ==
    \/ \E chunk_index \in ChunkIndexes, payload \in Payloads : Receive(chunk_index, payload)
    \/ SendAck

SpecInLogic == InitInLogic /\ [][NextInLogic]_vars

\* a transport that keeps delivering, for every chunk index, a SetChunk whose
\* payload has the chunk's length of the data model, among any other commands
Deliver(chunk_index) ==
    /\ chunk_index < chunk_count(logic)
    /\ \E payload \in Payloads :
          /\ Len(payload) = (IF chunk_index = chunk_count(logic) - 1
                             THEN logic.octet_count
                                  - logic.fixed_chunk_size * (chunk_count(logic) - 1)
                             ELSE logic.fixed_chunk_size)
          /\ Receive(chunk_index, payload)

NextDelivery ==
    \/ \E chunk_index \in ChunkIndexes : Deliver(chunk_index)
    \/ \E chunk_index \in ChunkIndexes, payload \in Payloads : Receive(chunk_index, payload)
    \/ SendAck

SpecDelivery ==
    /\ InitInLogic
    /\ [][NextDelivery]_vars
    /\ \A chunk_index \in ChunkIndexes : WF_vars(Deliver(chunk_index))

\* ---------------------------------------------------------- InLogicFront
Op(op, id, idx, total, size, res, result, response) ==
    [op |-> op, transfer_id |-> id, chunk_index |-> idx, total_octet_size |-> total,
     chunk_size |-> size, set_chunk |-> res, result |-> result, response |-> response]

\* InLogicFront::new()
Init ==
    /\ transfers = Empty
    /\ accepted = Empty
    /\ lastOp = Op("new", 0, 0, 0, 0, NotCalled, "Ok", NoResponse)
    /\ out = <<>>
    /\ Idle
    /\ CodecIdle

Running == lastOp.result # "Panic"

\* mutant: the session is inserted whether or not the id has one
StartTransfer_Replaces(transfer_id, total_octet_size, chunk_size) ==
    /\ Running
    /\ IF chunk_size = 0
       THEN /\ UNCHANGED <<transfers, accepted>>
            /\ lastOp' = Op("StartTransfer", transfer_id, 0, total_octet_size, chunk_size,
                         NotCalled, "Panic", NoResponse)
       ELSE /\ transfers' = Insert(transfers, transfer_id, InLogicNew(total_octet_size, chunk_size))
            /\ accepted' = Record(accepted, transfer_id, Empty)
            /\ lastOp' = Op("StartTransfer", transfer_id, 0, total_octet_size, chunk_size,
                         NotCalled, "Ok", AckStart(transfer_id))
    /\ out' = <<>>
    /\ UNCHANGED <<logicVars, codecVars>>

\* receive(StartTransfer): entry(transfer_id).or_insert_with(|| InLogic::new(..))
StartTransfer(transfer_id, total_octet_size, chunk_size) ==
    /\ Running
    /\ IF transfer_id \in DOMAIN transfers
       THEN /\ UNCHANGED <<transfers, accepted>>
            /\ lastOp' = Op("StartTransfer", transfer_id, 0, total_octet_size, chunk_size,
                         NotCalled, "Ok", AckStart(transfer_id))
       ELSE IF chunk_size = 0
       THEN \* BlobStreamIn::new asserts fixed_chunk_size > 0
            /\ UNCHANGED <<transfers, accepted>>
            /\ lastOp' = Op("StartTransfer", transfer_id, 0, total_octet_size, chunk_size,
                         NotCalled, "Panic", NoResponse)
       ELSE /\ transfers' = Insert(transfers, transfer_id, InLogicNew(total_octet_size, chunk_size))
            /\ accepted' = Record(accepted, transfer_id, Empty)
            /\ lastOp' = Op("StartTransfer", transfer_id, 0, total_octet_size, chunk_size,
                         NotCalled, "Ok", AckStart(transfer_id))
    /\ out' = <<>>
    /\ UNCHANGED <<logicVars, codecVars>>

\* mutant: a chunk for an unknown transfer id is dropped without an error
SetChunk_IgnoresUnknown(transfer_id, chunk_index, payload) ==
    /\ Running
    /\ IF transfer_id \in DOMAIN transfers
       THEN LET r == InLogicReceive(transfers[transfer_id], chunk_index, payload)
            IN  /\ transfers' = [transfers EXCEPT ![transfer_id] = r.self]
                /\ accepted' = IF r.res = Ok
                               THEN [accepted EXCEPT ![transfer_id] = Record(@, chunk_index, payload)]
                               ELSE accepted
                /\ lastOp' = Op("SetChunk", transfer_id, chunk_index, 0, 0, r.res, r.result,
                                ChunkResponse(transfer_id, r.self, r.result))
       ELSE /\ UNCHANGED <<transfers, accepted>>
            /\ lastOp' = Op("SetChunk", transfer_id, chunk_index, 0, 0, NotCalled, "Ok", NoResponse)
    /\ out' = <<>>
    /\ UNCHANGED <<logicVars, codecVars>>

\* mutant: the answer carries the summary of the session before the chunk
SetChunk_AcksBefore(transfer_id, chunk_index, payload) ==
    /\ Running
    /\ IF transfer_id \in DOMAIN transfers
       THEN LET r == InLogicReceive(transfers[transfer_id], chunk_index, payload)
            IN  /\ transfers' = [transfers EXCEPT ![transfer_id] = r.self]
                /\ accepted' = IF r.res = Ok
                               THEN [accepted EXCEPT ![transfer_id] = Record(@, chunk_index, payload)]
                               ELSE accepted
                /\ lastOp' = Op("SetChunk", transfer_id, chunk_index, 0, 0, r.res, r.result,
                                ChunkResponse(transfer_id, transfers[transfer_id], r.result))
       ELSE /\ UNCHANGED <<transfers, accepted>>
            /\ lastOp' = Op("SetChunk", transfer_id, chunk_index, 0, 0,
                         NotCalled, "UnknownTransfer", NoResponse)
    /\ out' = <<>>
    /\ UNCHANGED <<logicVars, codecVars>>

\* receive(SetChunk)
SetChunk(transfer_id, chunk_index, payload) ==
    /\ Running
    /\ IF transfer_id \in DOMAIN transfers
       THEN LET r == InLogicReceive(transfers[transfer_id], chunk_index, payload)
            IN  /\ transfers' = [transfers EXCEPT ![transfer_id] = r.self]
                /\ accepted' = IF r.res = Ok
                               THEN [accepted EXCEPT ![transfer_id] = Record(@, chunk_index, payload)]
                               ELSE accepted
                /\ lastOp' = Op("SetChunk", transfer_id, chunk_index, 0, 0, r.res, r.result,
                                ChunkResponse(transfer_id, r.self, r.result))
       ELSE /\ UNCHANGED <<transfers, accepted>>
            /\ lastOp' = Op("SetChunk", transfer_id, chunk_index, 0, 0,
                         NotCalled, "UnknownTransfer", NoResponse)
    /\ out' = <<>>
    /\ UNCHANGED <<logicVars, codecVars>>

AckChunkFront(transfer_id, data) == [transfer_id |-> transfer_id, data |-> data]

\* the sequences that hold every element of S once
Orders(S) == {q \in [1..Cardinality(S) -> S] : \A x \in S : \E i \in DOMAIN q : q[i] = x}

\* mutant: only the first entry of the map is acknowledged
Send_First ==
    /\ Running
    /\ \E order \in Orders(DOMAIN transfers) :
          out' = [i \in DOMAIN order \cap {1} |->
                     AckChunkFront(order[i], InLogicSend(transfers[order[i]]))]
    /\ lastOp' = Op("send", 0, 0, 0, 0, NotCalled, "Ok", NoResponse)
    /\ UNCHANGED <<transfers, accepted>>
    /\ UNCHANGED <<logicVars, codecVars>>

\* send: one AckChunk per entry, in the map's iteration order
Send ==
    /\ Running
    /\ \E order \in Orders(DOMAIN transfers) :
          out' = [i \in DOMAIN order |-> AckChunkFront(order[i], InLogicSend(transfers[order[i]]))]
    /\ lastOp' = Op("send", 0, 0, 0, 0, NotCalled, "Ok", NoResponse)
    /\ UNCHANGED <<transfers, accepted>>
    /\ UNCHANGED <<logicVars, codecVars>>

Next ==
    \/ \E id \in TransferIds, total \in FrontOctetCounts, size \in ChunkSizes :
          StartTransfer(id, total, size)
    \/ \E id \in TransferIds, idx \in FrontChunkIndexes, payload \in Payloads :
          SetChunk(id, idx, payload)
    \/ Send

Spec == Init /\ [][Next]_vars

TypeOK ==
    /\ DOMAIN transfers \subseteq TransferIds
    /\ DOMAIN accepted = DOMAIN transfers

\* ---------------------------------------------------------- protocol
U8 == 256
U16 == 65536
SetChunkTag == 1
AckChunkTag == 2

\* chunk indexes below 2^31, the masks and the octet strings the codec is run on
CodecIndexes == {0, 1, 258, 16909060}
CodecMasks == {{}, {0}, {1, 8}, {63}, {0, 31, 32, 63}}
Zeros(n) == [i \in 1..n |-> 0]
\* the longest payload whose length a u16 holds, and the first one past it
LongPayloads == {Zeros(U16 - 1), Zeros(U16)}

SetChunkData(chunk_index, payload) == [chunk_index |-> chunk_index, payload |-> payload]
SenderToReceiverCommands_SetChunk(data) == [kind |-> "SetChunk", data |-> data]
ReceiverToSenderCommands_AckChunk(data) == [kind |-> "AckChunk", data |-> data]
NoCommand == [kind |-> "None"]

SenderCommands ==
    {SenderToReceiverCommands_SetChunk(SetChunkData(i, p)) :
        i \in CodecIndexes, p \in Payloads \cup LongPayloads}
ReceiverCommands ==
    {ReceiverToSenderCommands_AckChunk(AckChunkData(w, m)) : w \in CodecIndexes, m \in CodecMasks}

\* io::Result of a read: the value and the octets left, or the error
NoError == [kind |-> "None", value |-> 0]
UnexpectedEof == [kind |-> "UnexpectedEof", value |-> 0]
UnknownCommand(value) == [kind |-> "UnknownCommand", value |-> value]
ReadOk(value, rest) == [ok |-> TRUE, value |-> value, rest |-> rest, err |-> NoError]
ReadErr(err) == [ok |-> FALSE, value |-> 0, rest |-> <<>>, err |-> err]
NotRead == ReadErr(NoError)

\* the octet stream: fixed-width integers, most significant octet first
write_u8(v) == <<v>>
write_u16(v) == <<v \div U8, v % U8>>
write_u32(v) == <<(v \div (U8 * U16)) % U8, (v \div U16) % U8, (v \div U8) % U8, v % U8>>
Bit(m, i) == IF i \in m THEN 1 ELSE 0
MaskOctet(m, b) ==
    Bit(m, b) + 2 * Bit(m, b + 1) + 4 * Bit(m, b + 2) + 8 * Bit(m, b + 3)
    + 16 * Bit(m, b + 4) + 32 * Bit(m, b + 5) + 64 * Bit(m, b + 6) + 128 * Bit(m, b + 7)
write_u64(m) == [k \in 1..8 |-> MaskOctet(m, 8 * (8 - k))]

Drop(s, n) == SubSeq(s, n + 1, Len(s))
read(s, n) == IF Len(s) >= n THEN ReadOk(SubSeq(s, 1, n), Drop(s, n)) ELSE ReadErr(UnexpectedEof)
read_u8(s) == IF Len(s) >= 1 THEN ReadOk(s[1], Drop(s, 1)) ELSE ReadErr(UnexpectedEof)
read_u16(s) == IF Len(s) >= 2 THEN ReadOk(s[1] * U8 + s[2], Drop(s, 2)) ELSE ReadErr(UnexpectedEof)
read_u32(s) ==
    IF Len(s) >= 4
    THEN ReadOk(s[1] * U8 * U16 + s[2] * U16 + s[3] * U8 + s[4], Drop(s, 4))
    ELSE ReadErr(UnexpectedEof)
read_u64(s) ==
    IF Len(s) >= 8
    THEN ReadOk({i \in 0..(MaskBits - 1) : (s[8 - (i \div 8)] \div 2^(i % 8)) % 2 = 1}, Drop(s, 8))
    ELSE ReadErr(UnexpectedEof)

\* mutant: the payload length is written before the chunk index
SetChunkData_to_stream_length_first(self) ==
    write_u16(Len(self.payload) % U16) \o write_u32(self.chunk_index) \o self.payload
\* the length is written as `payload.len() as u16`
SetChunkData_to_stream(self) ==
    write_u32(self.chunk_index) \o write_u16(Len(self.payload) % U16) \o self.payload

SetChunkData_from_stream(s) ==
    LET chunk_index == read_u32(s)
    IN  IF ~chunk_index.ok THEN ReadErr(chunk_index.err)
        ELSE LET octet_length == read_u16(chunk_index.rest)
             IN  IF ~octet_length.ok THEN ReadErr(octet_length.err)
                 ELSE LET payload == read(octet_length.rest, octet_length.value)
                      IN  IF ~payload.ok THEN ReadErr(payload.err)
                          ELSE ReadOk(SetChunkData(chunk_index.value, payload.value),
                                      payload.rest)

\* mutant: every tag octet is taken for SetChunk
SenderToReceiverCommand_try_from_any(value) ==
    [ok |-> TRUE, command |-> "SetChunk", err |-> NoError]
SenderToReceiverCommand_try_from(value) ==
    IF value = SetChunkTag
    THEN [ok |-> TRUE, command |-> "SetChunk", err |-> NoError]
    ELSE [ok |-> FALSE, command |-> "None", err |-> UnknownCommand(value)]

SenderToReceiverCommands_to_octet(self) == SetChunkTag

SenderToReceiverCommands_to_stream(self) ==
    write_u8(SenderToReceiverCommands_to_octet(self)) \o SetChunkData_to_stream(self.data)

SenderToReceiverCommands_from_stream(s) ==
    LET command_value == read_u8(s)
    IN  IF ~command_value.ok THEN ReadErr(command_value.err)
        ELSE LET command == SenderToReceiverCommand_try_from(command_value.value)
             IN  IF ~command.ok THEN ReadErr(command.err)
                 ELSE LET data == SetChunkData_from_stream(command_value.rest)
                      IN  IF ~data.ok THEN ReadErr(data.err)
                          ELSE ReadOk(SenderToReceiverCommands_SetChunk(data.value), data.rest)

ReceiverToSenderCommand_try_from(value) ==
    IF value = AckChunkTag
    THEN [ok |-> TRUE, command |-> "AckChunk", err |-> NoError]
    ELSE [ok |-> FALSE, command |-> "None", err |-> UnknownCommand(value)]

AckChunkData_to_stream(self) ==
    write_u32(self.waiting_for_chunk_index) \o write_u64(self.receive_mask_after_last)

AckChunkData_from_stream(s) ==
    LET waiting_for_chunk_index == read_u32(s)
    IN  IF ~waiting_for_chunk_index.ok THEN ReadErr(waiting_for_chunk_index.err)
        ELSE LET receive_mask_after_last == read_u64(waiting_for_chunk_index.rest)
             IN  IF ~receive_mask_after_last.ok THEN ReadErr(receive_mask_after_last.err)
                 ELSE ReadOk(AckChunkData(waiting_for_chunk_index.value,
                                          receive_mask_after_last.value),
                             receive_mask_after_last.rest)

ReceiverToSenderCommands_to_octet(self) == AckChunkTag

ReceiverToSenderCommands_to_stream(self) ==
    write_u8(ReceiverToSenderCommands_to_octet(self)) \o AckChunkData_to_stream(self.data)

ReceiverToSenderCommands_from_stream(s) ==
    LET command_value == read_u8(s)
    IN  IF ~command_value.ok THEN ReadErr(command_value.err)
        ELSE LET command == ReceiverToSenderCommand_try_from(command_value.value)
             IN  IF ~command.ok THEN ReadErr(command.err)
                 ELSE LET data == AckChunkData_from_stream(command_value.rest)
                      IN  IF ~data.ok THEN ReadErr(data.err)
                          ELSE ReadOk(ReceiverToSenderCommands_AckChunk(data.value), data.rest)

\* octets that no to_stream wrote: tag octets of both families and others,
\* alone, before a SetChunk body and before an AckChunk body
WireTags == {0, 1, 2, 3, 255}
WireBodies == {<<>>, <<0, 0, 0, 1, 0, 1, 7>>, <<0, 0, 0, 1, 0, 0, 0, 0, 0, 0, 0, 5>>}
WireOctets == {<<>>} \cup {<<t>> \o b : t \in WireTags, b \in WireBodies}

Codec(op, writer, reader, command, octets, result) ==
    [op |-> op, writer |-> writer, reader |-> reader, command |-> command,
     octets |-> octets, read |-> result]

InitCodec ==
    /\ Idle
    /\ FrontIdle
    /\ CodecIdle

ToStreamSender(command) ==
    /\ codec' = Codec("to_stream", "sender", "none", command,
                      SenderToReceiverCommands_to_stream(command), NotRead)
    /\ UNCHANGED <<logicVars, frontVars>>

ToStreamReceiver(command) ==
    /\ codec' = Codec("to_stream", "receiver", "none", command,
                      ReceiverToSenderCommands_to_stream(command), NotRead)
    /\ UNCHANGED <<logicVars, frontVars>>

\* octets handed over by the transport
Arrive(octets) ==
    /\ codec' = Codec("arrive", "none", "none", NoCommand, octets, NotRead)
    /\ UNCHANGED <<logicVars, frontVars>>

FromStreamSender ==
    /\ codec.op \in {"to_stream", "arrive"}
    /\ codec' = [codec EXCEPT !.op = "from_stream", !.reader = "sender",
                              !.read = SenderToReceiverCommands_from_stream(codec.octets)]
    /\ UNCHANGED <<logicVars, frontVars>>

FromStreamReceiver ==
    /\ codec.op \in {"to_stream", "arrive"}
    /\ codec' = [codec EXCEPT !.op = "from_stream", !.reader = "receiver",
                              !.read = ReceiverToSenderCommands_from_stream(codec.octets)]
    /\ UNCHANGED <<logicVars, frontVars>>

NextCodec ==
    \/ \E command \in SenderCommands : ToStreamSender(command)
    \/ \E command \in ReceiverCommands : ToStreamReceiver(command)
    \/ \E octets \in WireOctets : Arrive(octets)
    \/ FromStreamSender
    \/ FromStreamReceiver

SpecCodec == InitCodec /\ [][NextCodec]_vars

\* ============================================================== claims
\* the set of chunk indexes of a stream
Indexes(self) == 0..(chunk_count(self) - 1)

\* the length the data model gives the chunk at idx
ModelSize(self, idx) ==
    IF idx = chunk_count(self) - 1
    THEN self.octet_count - self.fixed_chunk_size * (chunk_count(self) - 1)
    ELSE self.fixed_chunk_size

\* smallest index of the stream that is not in the set done, or chunk_count
FirstMissing(self, done) ==
    IF \E i \in Indexes(self) : i \notin done
    THEN CHOOSE i \in Indexes(self) : i \notin done /\ \A j \in 0..(i - 1) : j \in done
    ELSE chunk_count(self)

\* the octets from + 1 .. to of the buffer b
Region(b, from, to) == [i \in 1..(to - from) |-> b[from + i]]

\* the payloads of w for the indexes 0..(n - 1), one after the other
RECURSIVE Concat(_, _)
Concat(w, n) == IF n = 0 THEN <<>> ELSE Concat(w, n - 1) \o w[n - 1]

\* C1: a set_chunk on the last index that is not yet set, with a payload of
\* octet_count - fixed_chunk_size * (chunk_count - 1) octets, returns Ok
C1_LastChunkAccepted ==
    [][(/\ call'.op = "receive"
        /\ chunk_count(logic) > 0
        /\ call'.chunk_index = chunk_count(logic) - 1
        /\ ~BitGet(logic.bit_array, call'.chunk_index)
        /\ Len(call'.payload) = ModelSize(logic, call'.chunk_index))
       => call'.set_chunk = Ok]_vars

\* C2: the acknowledgment's waiting_for_chunk_index is the smallest chunk index
\* that no set_chunk has accepted, and chunk_count when all were accepted
C2_WaitingIsFirstMissing ==
    call.op = "send" =>
        answer.waiting_for_chunk_index = FirstMissing(logic, DOMAIN written)

C2_Witness ==
    /\ call.op = "send"
    /\ answer.waiting_for_chunk_index = 1
    /\ 2 \in DOMAIN written

\* C3: bit i of receive_mask_after_last is set exactly when chunk index
\* waiting_for_chunk_index + 1 + i is below chunk_count and was accepted
C3_MaskIsLookahead ==
    call.op = "send" =>
        \A i \in 0..(MaskBits - 1) :
            i \in answer.receive_mask_after_last <=>
                /\ answer.waiting_for_chunk_index + 1 + i < chunk_count(logic)
                /\ answer.waiting_for_chunk_index + 1 + i \in DOMAIN written

C3_Witness ==
    /\ call.op = "send"
    /\ answer.waiting_for_chunk_index = 0
    /\ MaskValue(answer.receive_mask_after_last) = 2

\* C4: blob() is Some exactly when is_complete(), and is_complete() exactly
\* when every chunk index was accepted by a set_chunk that returned Ok
C4_CompleteIffAllAccepted ==
    /\ blob(logic).some <=> is_complete(logic)
    /\ is_complete(logic) <=> DOMAIN written = Indexes(logic)
    /\ ~is_complete(logic) => blob(logic) = None

C4_Witness ==
    /\ call.op = "receive"
    /\ call.set_chunk = Ok
    /\ chunk_count(logic) >= 2
    /\ blob(logic).some

\* C5: a chunk's bit is set exactly when its region of the buffer holds the
\* payload of the accepted write, and the complete blob is octet_count long and
\* is the accepted payloads one after the other in index order
C5_BlobIsConcatenation ==
    /\ \A idx \in Indexes(logic) :
          BitGet(logic.bit_array, idx) <=>
              /\ idx \in DOMAIN written
              /\ Region(logic.blob, idx * logic.fixed_chunk_size,
                       idx * logic.fixed_chunk_size + ModelSize(logic, idx)) = written[idx]
    /\ is_complete(logic) =>
          /\ Len(logic.blob) = logic.octet_count
          /\ logic.blob = Concat(written, chunk_count(logic))

\* C6: a set_chunk that repeats an accepted index with the same payload returns
\* RedundantSameContents(index) and changes neither the buffer nor the bitset
C6_SameContents ==
    [][(/\ call'.op = "receive"
        /\ call'.chunk_index \in DOMAIN written
        /\ call'.payload = written[call'.chunk_index])
       => /\ call'.set_chunk = RedundantSameContents(call'.chunk_index)
          /\ logic' = logic]_vars

C6_Witness ==
    /\ call.op = "receive"
    /\ call.set_chunk = RedundantSameContents(call.chunk_index)
    /\ Len(call.payload) > 0
    /\ written[call.chunk_index] = call.payload

\* C7: a set_chunk that repeats an accepted index with other bytes of the same
\* length returns RedundantContentDiffers(index); the buffer keeps the bytes of
\* the first write and the bitset is unchanged
C7_ContentDiffers ==
    [][(/\ call'.op = "receive"
        /\ call'.chunk_index \in DOMAIN written
        /\ Len(call'.payload) = Len(written[call'.chunk_index])
        /\ call'.payload # written[call'.chunk_index])
       => /\ call'.set_chunk = RedundantContentDiffers(call'.chunk_index)
          /\ logic'.bit_array = logic.bit_array
          /\ logic'.blob = logic.blob
          /\ Region(logic'.blob, call'.chunk_index * logic.fixed_chunk_size,
                   call'.chunk_index * logic.fixed_chunk_size + Len(call'.payload))
                = written[call'.chunk_index]]_vars

C7_Witness ==
    /\ call.op = "receive"
    /\ call.set_chunk = RedundantContentDiffers(call.chunk_index)
    /\ written[call.chunk_index] # call.payload
    /\ Len(written[call.chunk_index]) = Len(call.payload)

\* C8: a StartTransfer for a transfer id that has a session leaves the session
\* (chunks, buffer, sizes) and so its acknowledgment as they were
C8_RepeatedStartKeepsSession ==
    [][(/\ lastOp'.op = "StartTransfer"
        /\ lastOp'.transfer_id \in DOMAIN transfers)
       => /\ lastOp'.transfer_id \in DOMAIN transfers'
          /\ transfers'[lastOp'.transfer_id] = transfers[lastOp'.transfer_id]
          /\ InLogicSend(transfers'[lastOp'.transfer_id])
                = InLogicSend(transfers[lastOp'.transfer_id])]_vars

C8_Witness ==
    /\ lastOp.op = "StartTransfer"
    /\ lastOp.transfer_id \in DOMAIN transfers
    /\ DOMAIN accepted[lastOp.transfer_id] # {}

\* C9: a SetChunk for a transfer id without a session fails as an unknown
\* transfer, creates no session and leaves every session as it was
C9_UnknownTransfer ==
    [][(/\ lastOp'.op = "SetChunk"
        /\ lastOp'.transfer_id \notin DOMAIN transfers)
       => /\ lastOp'.result = "UnknownTransfer"
          /\ transfers' = transfers]_vars

C9_Witness ==
    /\ lastOp.op = "SetChunk"
    /\ lastOp.result = "UnknownTransfer"
    /\ lastOp.transfer_id \notin DOMAIN transfers
    /\ \E b \in DOMAIN transfers : DOMAIN accepted[b] # {}

\* C10: a command for one transfer id leaves the session (bitset, buffer,
\* acknowledgment, blob) of every other transfer id as it was
C10_TransfersIndependent ==
    [][lastOp'.op \in {"StartTransfer", "SetChunk"} =>
          \A b \in DOMAIN transfers :
              b # lastOp'.transfer_id =>
                  /\ b \in DOMAIN transfers'
                  /\ transfers'[b] = transfers[b]
                  /\ InLogicSend(transfers'[b]) = InLogicSend(transfers[b])
                  /\ blob(transfers'[b]) = blob(transfers[b])]_vars

C10_Witness ==
    /\ lastOp.op = "SetChunk"
    /\ lastOp.set_chunk = Ok
    /\ \E b \in DOMAIN transfers : b # lastOp.transfer_id /\ DOMAIN accepted[b] # {}

\* the acknowledgment summary of a stream of which the indexes in done were accepted
Summary(self, done) ==
    LET w == FirstMissing(self, done)
    IN  AckChunkData(w, {i \in 0..(MaskBits - 1) : w + 1 + i \in done})

\* C11: handling a StartTransfer succeeds and answers AckStart with the
\* command's transfer id, whether or not a transfer was started before
C11_StartAlwaysAcked ==
    lastOp.op = "StartTransfer" =>
        /\ lastOp.result = "Ok"
        /\ lastOp.response = AckStart(lastOp.transfer_id)

Range(q) == {q[i] : i \in DOMAIN q}

\* C13: send returns one AckChunk per session of the map, none left out and
\* none twice, each with the session's transfer id and current summary; it
\* changes no session, and a send right after a send returns the same set
C13_SendOnePerSession ==
    [][lastOp'.op = "send" =>
          /\ transfers' = transfers
          /\ Len(out') = Cardinality(DOMAIN transfers)
          /\ Range(out') = {AckChunkFront(id, Summary(transfers[id], DOMAIN accepted[id])) :
                               id \in DOMAIN transfers}
          /\ lastOp.op = "send" => Range(out') = Range(out)]_vars

C13_Witness ==
    /\ lastOp.op = "send"
    /\ Len(out) = 2
    /\ \E i \in DOMAIN out : out[i].data.waiting_for_chunk_index = 1
    /\ \E i \in DOMAIN out : out[i].data.waiting_for_chunk_index = 0

\* C16: set_chunk returns InvalidChunkIndex(index, chunk_count) exactly when
\* index >= chunk_count, and UnexpectedChunkSize(expected, actual, index) when
\* the index is valid and the payload length is not the chunk's length of the
\* data model; both leave the buffer and the bitset as they were
C16_IndexAndSizeErrors ==
    [][call'.op = "receive" =>
          /\ call'.set_chunk.kind = "InvalidChunkIndex"
                <=> call'.chunk_index >= chunk_count(logic)
          /\ call'.chunk_index >= chunk_count(logic) =>
                call'.set_chunk = InvalidChunkIndex(call'.chunk_index, chunk_count(logic))
          /\ (/\ call'.chunk_index < chunk_count(logic)
              /\ Len(call'.payload) # ModelSize(logic, call'.chunk_index))
             => call'.set_chunk = UnexpectedChunkSize(ModelSize(logic, call'.chunk_index),
                                                      Len(call'.payload), call'.chunk_index)
          /\ call'.set_chunk.kind \in {"InvalidChunkIndex", "UnexpectedChunkSize"} =>
                logic' = logic]_vars

C18_NeverAborts ==
    /\ lastOp.result # "Panic"
    /\ \A id \in DOMAIN transfers : transfers[id].fixed_chunk_size > 0

\* C19: set_chunk never returns OutOfBounds: when the index passed the index
\* check and the payload the size check, the chunk's offset plus its length
\* is at most the buffer's length, which is octet_count
C19_OutOfBoundsUnreachable ==
    /\ Len(logic.blob) = logic.octet_count
    /\ call.op = "receive" =>
          /\ call.set_chunk.kind # "OutOfBounds"
          /\ call.set_chunk.kind \notin {"InvalidChunkIndex", "UnexpectedChunkSize"} =>
                /\ call.chunk_index < chunk_count(logic)
                /\ call.chunk_index * logic.fixed_chunk_size + Len(call.payload)
                      <= Len(logic.blob)

C19_Witness ==
    /\ call.op = "receive"
    /\ call.set_chunk = Ok
    /\ call.chunk_index >= 1
    /\ call.chunk_index = chunk_count(logic) - 1
    /\ call.chunk_index * logic.fixed_chunk_size + Len(call.payload) = Len(logic.blob)

\* C20: a transfer id gets a session only by a StartTransfer for that id,
\* with the command's sizes; a session that exists stays, with its sizes
\* and with every chunk it holds, whatever command comes later
C20_LifecycleForward ==
    [][/\ \A id \in DOMAIN transfers' \ DOMAIN transfers :
             /\ lastOp'.op = "StartTransfer"
             /\ lastOp'.transfer_id = id
             /\ transfers'[id].octet_count = lastOp'.total_octet_size
             /\ transfers'[id].fixed_chunk_size = lastOp'.chunk_size
       /\ \A id \in DOMAIN transfers :
             /\ id \in DOMAIN transfers'
             /\ transfers'[id].octet_count = transfers[id].octet_count
             /\ transfers'[id].fixed_chunk_size = transfers[id].fixed_chunk_size
             /\ chunk_count(transfers'[id]) = chunk_count(transfers[id])
             /\ \A i \in Indexes(transfers[id]) :
                   BitGet(transfers[id].bit_array, i) => BitGet(transfers'[id].bit_array, i)]_vars

C20_Witness ==
    /\ lastOp.op = "StartTransfer"
    /\ lastOp.transfer_id \in DOMAIN transfers
    /\ lastOp.chunk_size # transfers[lastOp.transfer_id].fixed_chunk_size
    /\ lastOp.total_octet_size # transfers[lastOp.transfer_id].octet_count
    /\ is_complete(transfers[lastOp.transfer_id])
    /\ chunk_count(transfers[lastOp.transfer_id]) > 0

\* C14 as stated: for every command of both families, a payload longer than
\* a u16 counts included, reading the octets that to_stream wrote gives the
\* command back and leaves no octet
C14_RoundTripAnyPayload ==
    (/\ codec.op = "from_stream"
     /\ codec.writer = codec.reader)
    => /\ codec.read.ok
       /\ codec.read.value = codec.command
       /\ codec.read.rest = <<>>

\* C14: for every AckChunk, and every SetChunk whose payload has at most
\* 65535 octets, reading the octets that to_stream wrote gives the command
\* back and leaves no octet
C14_RoundTrip ==
    (/\ codec.op = "from_stream"
     /\ codec.writer = codec.reader
     /\ codec.command.kind = "SetChunk" => Len(codec.command.data.payload) <= 65535)
    => /\ codec.read.ok
       /\ codec.read.value = codec.command
       /\ codec.read.rest = <<>>

C14_Witness ==
    /\ codec.op = "from_stream"
    /\ codec.writer = "sender"
    /\ codec.reader = "sender"
    /\ Len(codec.command.data.payload) = 65535
    /\ codec.command.data.chunk_index > 65536
    /\ codec.read.ok

\* C15: reading a sender-to-receiver command whose first octet is not 0x01,
\* or a receiver-to-sender command whose first octet is not 0x02, fails with
\* the unknown-command error of that octet and gives no command
C15_UnknownTag ==
    (/\ codec.op = "from_stream"
     /\ Len(codec.octets) >= 1
     /\ codec.octets[1] # (IF codec.reader = "sender" THEN 1 ELSE 2))
    => /\ ~codec.read.ok
       /\ codec.read.err = [kind |-> "UnknownCommand", value |-> codec.octets[1]]
       /\ codec.read.value = 0

C15_Witness ==
    /\ codec.op = "from_stream"
    /\ codec.writer = "receiver"
    /\ codec.reader = "sender"
    /\ codec.octets[1] = 2
    /\ codec.read.err = [kind |-> "UnknownCommand", value |-> 2]

\* every bit of the stream's bitset is set
EveryBitSet(self) == \A j \in 1..Len(self.bit_array) : self.bit_array[j]

\* C21: once every bit is set, every set_chunk, whatever its index and
\* payload, returns an error and leaves the buffer and the bitset as they
\* were; blob() keeps its bytes and the acknowledgment stays (chunk_count, 0)
C21_CompleteIsImmutable ==
    [][EveryBitSet(logic) =>
          /\ logic' = logic
          /\ blob(logic') = blob(logic)
          /\ blob(logic') = Some(logic.blob)
          /\ call'.op = "receive" => call'.set_chunk.kind \notin {"Ok", "NotCalled"}
          /\ call'.op = "send" =>
                /\ answer'.waiting_for_chunk_index = Len(logic.bit_array)
                /\ answer'.receive_mask_after_last = {}]_vars

C21_Witness ==
    /\ EveryBitSet(logic)
    /\ Len(logic.bit_array) >= 2
    /\ call.op = "receive"
    /\ call.chunk_index = 0
    /\ call.set_chunk = RedundantContentDiffers(0)
    /\ blob(logic) = Some(logic.blob)

\* C22: no operation clears a bit, so waiting_for_chunk_index of the
\* acknowledgment never gets smaller, and an accepted SetChunk for the index
\* that was waited for makes it larger
C22_ProgressMonotonic ==
    [][/\ Len(logic'.bit_array) = Len(logic.bit_array)
       /\ \A j \in 1..Len(logic.bit_array) : logic.bit_array[j] => logic'.bit_array[j]
       /\ DOMAIN written \subseteq DOMAIN written'
       /\ InLogicSend(logic').waiting_for_chunk_index
             >= InLogicSend(logic).waiting_for_chunk_index
       /\ (/\ call'.op = "receive"
           /\ call'.set_chunk = Ok
           /\ call'.chunk_index = InLogicSend(logic).waiting_for_chunk_index)
          => InLogicSend(logic').waiting_for_chunk_index
                > InLogicSend(logic).waiting_for_chunk_index]_vars

C22_Witness ==
    /\ call.op = "receive"
    /\ call.set_chunk = Ok
    /\ call.chunk_index = 0
    /\ InLogicSend(logic).waiting_for_chunk_index >= 2
    /\ ~EveryBitSet(logic)

\* C23: when for every chunk index a SetChunk with a payload of the chunk's
\* length keeps being delivered, in any order and among duplicates and
\* invalid commands, a transfer of octet_count > 0 becomes complete:
\* is_complete() is true and blob() is Some
C23_EventuallyComplete ==
    logic.octet_count > 0 => <>(is_complete(logic) /\ blob(logic) = Some(logic.blob))

====
